---- MODULE Spec2Model ----
(***************************************************************************)
(* Model of PQueue (pqueue.h / pqueue.cpp): a min-heap of (vertex,         *)
(* distance) pairs kept in the array Queue, with the array Positions       *)
(* mapping each vertex to its slot in Queue (-1 when not in the queue).    *)
(* Distances are doubles in the program; the program only compares them    *)
(* and tests them against the literal -1, so they are modelled by a small  *)
(* interval of integers around -1.                                         *)
(***************************************************************************)
EXTENDS Integers, Sequences, FiniteSets, TLC

\* ---- bounds of the model -------------------------------------------------
Capacity == 4            \* N, the argument of the constructor
MinDist  == 0 - 2        \* smallest distance passed to Fill / Push
MaxDist  == 1            \* largest distance passed to Fill / Push

Vertices == 0 .. (Capacity - 1)
Slots    == 0 .. (Capacity - 1)
Dist     == MinDist .. MaxDist
OrderDist == 1 .. Capacity            \* StressTest1 pushes the distances N, N-1, .., 1
VertexArgs == (0 - 1) .. Capacity     \* arguments of Push, two of them out of range

\* ---- the messages of the logic_errors the program throws -----------------
NoErr              == "ok"
ErrPushVertex      == "Invalid vertex passed to PQueue::Push, must be 0..N-1"
ErrPushMismatch    == "**Internal error: vertex mismatch in PQueue::Push"
ErrPushNotDeleted  == "**Internal error: vertex position not deleted in PQueue::Push"
ErrStackEmpty      == "stack empty!"
ErrInsertVertex    == "Invalid vertex passed to PQueue::Insert"
ErrInsertPresent   == "**Internal error: PQueue::Insert called while vertex is still in queue"
ErrDeleteEmpty     == "**Internal error: call to PQueue::Delete with an empty queue"
ErrDeletePosition  == "**Internal error: invalid position in PQueue::Delete"
ErrInsertOverflow  == "write past the end of Queue in PQueue::Insert"

VARIABLES
  Queue,        \* Elem *Queue      : Slots -> [V, D]
  Positions,    \* int  *Positions  : Vertices -> -1 .. Capacity-1
  NumElements,  \* int NumElements
  lastOp,       \* the public operation called last
  lastV,        \* its vertex argument (NoVertex when it has none)
  lastD,        \* its distance argument (NoDist when it has none)
  lastRet,      \* the vertex PopMin returned (-1 when nothing was returned)
  lastErr,      \* the message of the exception the call threw, NoErr if none
  sinceFill,    \* results of the PopMin calls since the last Fill
  runPushed,    \* vertices the run of pushes has put into the queue
  minPushed,    \* the vertex the last call pushed below every other distance
  pushedD,      \* scenario bookkeeping: the distance each vertex was pushed with
  poppedV,      \* scenario bookkeeping: the vertices popped, in order
  kPush,        \* scenario bookkeeping: successful pushes
  mPop,         \* scenario bookkeeping: successful pops
  sifts         \* the shiftUp / shiftDown calls of the last call, summarised

heap  == <<Queue, Positions, NumElements>>
last  == <<lastOp, lastV, lastD, lastRet, lastErr>>
runs  == <<sinceFill, runPushed, minPushed>>
scen  == <<pushedD, poppedV, kPush, mPop, sifts>>
vars  == <<Queue, Positions, NumElements, lastOp, lastV, lastD, lastRet,
           lastErr, sinceFill, runPushed, minPushed, pushedD, poppedV,
           kPush, mPop, sifts>>

\* ---- Elem ------------------------------------------------------------------
Elem(v, d) == [V |-> v, D |-> d]
Cleared    == Elem(0 - 1, 0 - 1)        \* Elem(): V = -1, D = -1.0

NoVertex == 0 - 2
NoDist   == MinDist - 1
NotInFillRun == << NoVertex >>

\* the object: the two arrays and the count
Obj(Q, P, n) == [Q |-> Q, P |-> P, n |-> n]

\* the outcome of a private helper: the object, the value returned, the
\* exception thrown
Outcome(s, ret, err) == [st |-> s, ret |-> ret, err |-> err]

\* PQueue(N): both arrays of length N, every slot cleared, every vertex absent
PQueue(N) ==
  Obj([i \in 0 .. (N - 1) |-> Cleared], [v \in 0 .. (N - 1) |-> 0 - 1], 0)

Constructed == PQueue(Capacity)

\* this->Capacity, the length the two arrays of the object were allocated with
CapacityOf(s) == Cardinality(DOMAIN s.Q)

Empty(s) == s.n = 0

getLeftChildIndex(position)  == (position * 2) + 1
getRightChildIndex(position) == (position * 2) + 2
\* the slot before position, as if the heap were a chain
getPreviousIndex(position) == IF position = 0 THEN 0 ELSE position - 1

\* C++ integer division truncates toward zero: (0 - 1) / 2 = 0
getParentIndex(position) == IF position = 0 THEN 0 ELSE (position - 1) \div 2

\* Queue[idx].D as the program reads it.  An index at or past Capacity is a
\* read past the end of the array: the value is whatever the memory holds,
\* g.l for the left child's index and g.r for the right child's.
ReadD(s, position, idx, g) ==
  IF idx < CapacityOf(s) THEN s.Q[idx].D
  ELSE IF idx = (position * 2) + 1 THEN g.l ELSE g.r

getSmallerChild(s, position, g) ==
  LET leftIndex  == (position * 2) + 1
      rightIndex == (position * 2) + 2
      l == ReadD(s, position, leftIndex, g)
      r == ReadD(s, position, rightIndex, g)
  IN IF l = r THEN rightIndex
     ELSE IF l > r THEN leftIndex ELSE rightIndex

inCorrectSpotwithRespectToParent(s, position) ==
  IF position # 0 /\ s.Q[position].D <= s.Q[(position - 1) \div 2].D
  THEN FALSE ELSE TRUE

inCorrectSpotwithRespectToChild(s, position, g) ==
  IF \/ ReadD(s, position, (position * 2) + 1, g) # 0 - 1
     \/ ReadD(s, position, (position * 2) + 2, g) # 0 - 1
  THEN IF s.Q[position].D <=
            ReadD(s, position, getSmallerChild(s, position, g), g)
       THEN FALSE ELSE TRUE
  ELSE TRUE

\* the swap of shiftUp: the entries of position and of its parent change
\* places, and Positions is updated for the two vertices moved
shiftUpSwap(s, position) ==
  LET parentIndex == getParentIndex(position)
      Q1 == [s.Q EXCEPT ![parentIndex] = s.Q[position],
                        ![position]    = s.Q[parentIndex]]
      P1 == [s.P EXCEPT ![Q1[parentIndex].V] = parentIndex]
      P2 == [P1 EXCEPT ![Q1[position].V] = position]
  IN Obj(Q1, P2, s.n)

\* shiftUp that makes one swap and does not go on to the parent
shiftUpOnce(s, position) ==
  IF s.Q[position].D >= s.Q[getParentIndex(position)].D THEN s
  ELSE shiftUpSwap(s, position)

RECURSIVE shiftUp(_, _)
shiftUp(s, position) ==
  LET parentIndex == getParentIndex(position) IN
  IF s.Q[position].D >= s.Q[parentIndex].D THEN s
  ELSE shiftUp(shiftUpSwap(s, position), parentIndex)

\* one swap made by shiftUp or shiftDown: the slot i the call was made for,
\* the slot m it swapped with, the object before and after the swap
SwapEvent(kind, i, m, before, after) ==
  [kind |-> kind, i |-> i, m |-> m, before |-> before, after |-> after]

\* the swaps shiftUp(position) makes, in order
RECURSIVE shiftUpLog(_, _)
shiftUpLog(s, position) ==
  LET parentIndex == getParentIndex(position) IN
  IF s.Q[position].D >= s.Q[parentIndex].D THEN << >>
  ELSE << SwapEvent("up", position, parentIndex, s, shiftUpSwap(s, position)) >>
       \o shiftUpLog(shiftUpSwap(s, position), parentIndex)

NoGarbage == [l |-> 0 - 1, r |-> 0 - 1]

\* the swap of shiftDown: the entries of position and of minIndex change
\* places
shiftDownSwap(s, position, minIndex) ==
  LET Q1 == [s.Q EXCEPT ![minIndex] = s.Q[position],
                        ![position] = s.Q[minIndex]]
      \* Positions is indexed by the slot, not by the vertex
      P1 == [s.P EXCEPT ![position] = minIndex]
      P2 == [P1 EXCEPT ![minIndex] = position]
  IN Obj(Q1, P2, s.n)

RECURSIVE shiftDown(_, _)
shiftDown(s, position) ==
  LET leftChildIndex  == getLeftChildIndex(position)
      rightChildIndex == getRightChildIndex(position)
  IN IF rightChildIndex >= s.n /\ leftChildIndex >= s.n THEN s
     ELSE LET minIndex == IF rightChildIndex >= s.n THEN leftChildIndex
                          ELSE getSmallerChild(s, position, NoGarbage)
          IN IF s.Q[position].D > s.Q[minIndex].D
             THEN shiftDown(shiftDownSwap(s, position, minIndex), minIndex)
             ELSE s

\* the swaps shiftDown(position) makes, in order
RECURSIVE shiftDownLog(_, _)
shiftDownLog(s, position) ==
  LET leftChildIndex  == getLeftChildIndex(position)
      rightChildIndex == getRightChildIndex(position)
  IN IF rightChildIndex >= s.n /\ leftChildIndex >= s.n THEN << >>
     ELSE LET minIndex == IF rightChildIndex >= s.n THEN leftChildIndex
                          ELSE getSmallerChild(s, position, NoGarbage)
          IN IF s.Q[position].D > s.Q[minIndex].D
             THEN << SwapEvent("down", position, minIndex, s,
                               shiftDownSwap(s, position, minIndex)) >>
                  \o shiftDownLog(shiftDownSwap(s, position, minIndex),
                                  minIndex)
             ELSE << >>

swap(s, position, g) ==
  LET s1 == IF ~ inCorrectSpotwithRespectToParent(s, position)
            THEN shiftUp(s, position) ELSE s
  IN IF ~ inCorrectSpotwithRespectToChild(s1, position, g)
     THEN shiftDown(s1, position) ELSE s1

\* the height of a binary heap of n entries
RECURSIVE Height(_)
Height(n) == IF n <= 1 THEN 0 ELSE 1 + Height(n \div 2)

\* a call shiftUp(position) on s, summarised: the swaps it makes, the height
\* of the heap, and whether it returns with the entry at the root or not
\* below its parent in distance
UpRecord(s, position) ==
  LET log   == shiftUpLog(s, position)
      f     == IF log = << >> THEN position ELSE log[Len(log)].m
      final == IF log = << >> THEN s ELSE log[Len(log)].after
  IN [kind |-> "up", swaps |-> Len(log), height |-> Height(s.n),
      stopped |-> (f = 0 \/ final.Q[f].D >= final.Q[(f - 1) \div 2].D)]

\* a call shiftDown(position) on s, summarised: the swaps it makes, the height
\* of the heap, and whether it returns with the entry in a slot without a
\* child in range or not above the child it is compared with
DownRecord(s, position) ==
  LET log   == shiftDownLog(s, position)
      f     == IF log = << >> THEN position ELSE log[Len(log)].m
      final == IF log = << >> THEN s ELSE log[Len(log)].after
      m     == IF (f * 2) + 2 >= final.n THEN (f * 2) + 1
               ELSE getSmallerChild(final, f, NoGarbage)
  IN [kind |-> "down", swaps |-> Len(log), height |-> Height(s.n),
      stopped |-> ((f * 2) + 1 >= final.n \/ final.Q[f].D <= final.Q[m].D)]

\* the shiftUp / shiftDown calls swap(position) makes, in order
swapSifts(s, position, g) ==
  LET up == ~ inCorrectSpotwithRespectToParent(s, position)
      s1 == IF up THEN shiftUp(s, position) ELSE s
  IN (IF up THEN << UpRecord(s, position) >> ELSE << >>)
     \o (IF ~ inCorrectSpotwithRespectToChild(s1, position, g)
         THEN << DownRecord(s1, position) >> ELSE << >>)

\* the swaps swap(position) makes, in order
swapLog(s, position, g) ==
  LET up == ~ inCorrectSpotwithRespectToParent(s, position)
      s1 == IF up THEN shiftUp(s, position) ELSE s
  IN (IF up THEN shiftUpLog(s, position) ELSE << >>)
     \o (IF ~ inCorrectSpotwithRespectToChild(s1, position, g)
         THEN shiftDownLog(s1, position) ELSE << >>)

Insert(s, v, d) ==
  IF v < 0 \/ v >= CapacityOf(s) THEN Outcome(s, 0 - 1, ErrInsertVertex)
  ELSE IF s.P[v] # 0 - 1 THEN Outcome(s, 0 - 1, ErrInsertPresent)
  \* Queue[NumElements] with NumElements = Capacity is a write past the end
  \* of Queue; the call is taken to end there
  ELSE IF s.n >= CapacityOf(s) THEN Outcome(s, 0 - 1, ErrInsertOverflow)
  ELSE LET Q1 == [s.Q EXCEPT ![s.n] = Elem(v, d)]
           P1 == [s.P EXCEPT ![v] = s.n]
           s1 == Obj(Q1, P1, s.n + 1)
       IN IF s1.Q[s1.n - 1].D < s1.Q[getParentIndex(s1.n - 1)].D
          THEN Outcome(shiftUp(s1, s1.n - 1), 0 - 1, NoErr)
          ELSE Outcome(s1, 0 - 1, NoErr)

\* the object once Insert has stored the new entry in slot NumElements and
\* counted it, before it looks at the parent
Appended(s, v, d) ==
  Obj([s.Q EXCEPT ![s.n] = Elem(v, d)], [s.P EXCEPT ![v] = s.n], s.n + 1)

\* the indexes at which Insert(v, d) reads or writes Queue, its shiftUp apart
\* (shiftUp stays between the slot it is given and the root)
InsertQueueIndexes(s, v, d) ==
  IF v < 0 \/ v >= CapacityOf(s) \/ s.P[v] # 0 - 1 THEN {}
  ELSE {s.n, getParentIndex(s.n)}

\* the shiftUp call Insert(v, d) makes, if any
InsertSifts(s, v, d) ==
  IF \/ v < 0 \/ v >= CapacityOf(s) \/ s.P[v] # 0 - 1
     \/ s.n >= CapacityOf(s)
  THEN << >>
  ELSE LET s1 == Appended(s, v, d)
       IN IF s1.Q[s1.n - 1].D < s1.Q[getParentIndex(s1.n - 1)].D
          THEN << UpRecord(s1, s1.n - 1) >> ELSE << >>

\* the swaps Insert(v, d) makes, in order
InsertLog(s, v, d) ==
  IF \/ v < 0 \/ v >= CapacityOf(s) \/ s.P[v] # 0 - 1
     \/ s.n >= CapacityOf(s)
  THEN << >>
  ELSE LET Q1 == [s.Q EXCEPT ![s.n] = Elem(v, d)]
           P1 == [s.P EXCEPT ![v] = s.n]
           s1 == Obj(Q1, P1, s.n + 1)
       IN IF s1.Q[s1.n - 1].D < s1.Q[getParentIndex(s1.n - 1)].D
          THEN shiftUpLog(s1, s1.n - 1) ELSE << >>

\* Delete(position) gets past its early returns: the queue holds more than
\* one entry and position is not the last occupied slot
DeleteRelocates(s, position) ==
  /\ ~ Empty(s) /\ position >= 0 /\ position < s.n
  /\ position # s.n - 1 /\ s.n # 1

\* Relocated without the clearing of the slot the last entry came from
RelocatedUncleared(s, position) ==
  LET v  == s.Q[position].V
      n1 == s.n - 1
      Q1 == [s.Q EXCEPT ![position] = s.Q[n1]]
      P1 == [s.P EXCEPT ![Q1[position].V] = position]
      P2 == [P1 EXCEPT ![v] = 0 - 1]
  IN Obj(Q1, P2, n1)

\* the object once Delete has moved the last entry into position, updated
\* Positions and cleared the last slot, before it checks the placement
Relocated(s, position) ==
  LET v  == s.Q[position].V
      n1 == s.n - 1
      Q1 == [s.Q EXCEPT ![position] = s.Q[n1]]
      P1 == [s.P EXCEPT ![Q1[position].V] = position]
      P2 == [P1 EXCEPT ![v] = 0 - 1]
      Q2 == [Q1 EXCEPT ![n1] = Cleared]
  IN Obj(Q2, P2, n1)

\* Delete that marks the vertex absent and leaves its entry in Queue
DeleteMarksOnly(s, position, g) ==
  IF Empty(s) THEN Outcome(s, 0 - 1, ErrDeleteEmpty)
  ELSE IF position < 0 \/ position >= s.n
  THEN Outcome(s, 0 - 1, ErrDeletePosition)
  ELSE Outcome(Obj(s.Q, [s.P EXCEPT ![s.Q[position].V] = 0 - 1], s.n),
               s.Q[position].V, NoErr)

Delete(s, position, g) ==
  IF Empty(s) THEN Outcome(s, 0 - 1, ErrDeleteEmpty)
  ELSE IF position < 0 \/ position >= s.n
  THEN Outcome(s, 0 - 1, ErrDeletePosition)
  ELSE LET v == s.Q[position].V IN
    IF position = s.n - 1
    THEN Outcome(Obj([s.Q EXCEPT ![position] = Cleared],
                     [s.P EXCEPT ![v] = 0 - 1], s.n - 1), v, NoErr)
    ELSE IF s.n = 1
    THEN Outcome(Obj([s.Q EXCEPT ![s.n - 1] = Cleared],
                     [s.P EXCEPT ![v] = 0 - 1], s.n - 1), v, NoErr)
    ELSE LET s1 == Relocated(s, position)
         IN IF /\ inCorrectSpotwithRespectToParent(s1, position)
               /\ inCorrectSpotwithRespectToChild(s1, position, g)
            THEN Outcome(s1, v, NoErr)
            ELSE Outcome(swap(s1, position, g), v, NoErr)

\* the object at the time swap (or Delete itself, when the entry is in the
\* right spot with respect to its parent) checks the entry of position against
\* its children
ChildCheckState(s, position) ==
  LET s1 == Relocated(s, position)
  IN IF inCorrectSpotwithRespectToParent(s1, position) THEN s1
     ELSE shiftUp(s1, position)

\* the indexes at which Delete(position) reads or writes Queue, its shifts
\* apart (shiftUp stays between position and the root, shiftDown tests its
\* child indexes against NumElements before it uses them)
DeleteQueueIndexes(s, position) ==
  IF Empty(s) \/ position < 0 \/ position >= s.n THEN {}
  ELSE IF ~ DeleteRelocates(s, position) THEN {position, s.n - 1}
  ELSE {position, s.n - 1, (position * 2) + 1, (position * 2) + 2}
       \cup (IF position # 0 THEN {(position - 1) \div 2} ELSE {})

\* the shiftUp / shiftDown calls Delete(position) makes, in order
DeleteSifts(s, position, g) ==
  IF ~ DeleteRelocates(s, position) THEN << >>
  ELSE LET s1 == Relocated(s, position)
       IN IF /\ inCorrectSpotwithRespectToParent(s1, position)
             /\ inCorrectSpotwithRespectToChild(s1, position, g)
          THEN << >>
          ELSE swapSifts(s1, position, g)

\* the swaps Delete(position) makes, in order
DeleteLog(s, position, g) ==
  IF ~ DeleteRelocates(s, position) THEN << >>
  ELSE LET s1 == Relocated(s, position)
       IN IF /\ inCorrectSpotwithRespectToParent(s1, position)
             /\ inCorrectSpotwithRespectToChild(s1, position, g)
          THEN << >>
          ELSE swapLog(s1, position, g)

\* Delete reads Queue[2*position+1] and Queue[2*position+2] whenever it gets
\* past the two early returns
DeleteReadsPastEnd(s, position) ==
  /\ DeleteRelocates(s, position)
  /\ (position * 2) + 2 >= CapacityOf(s)

\* Push with its range check left to Insert
PushUnchecked(s, vertex, distance, g) ==
  IF vertex < 0 \/ vertex >= CapacityOf(s) THEN Insert(s, vertex, distance)
  ELSE LET position == s.P[vertex] IN
    IF position >= 0
    THEN LET del == Delete(s, position, g) IN
         IF del.err # NoErr THEN del
         ELSE IF del.ret # vertex THEN Outcome(del.st, 0 - 1, ErrPushMismatch)
         ELSE IF del.st.P[vertex] # 0 - 1
         THEN Outcome(del.st, 0 - 1, ErrPushNotDeleted)
         ELSE Insert(del.st, vertex, distance)
    ELSE Insert(s, vertex, distance)

PushOutcome(s, vertex, distance, g) ==
  IF vertex < 0 \/ vertex >= CapacityOf(s)
  THEN Outcome(s, 0 - 1, ErrPushVertex)
  ELSE LET position == s.P[vertex] IN
    IF position >= 0
    THEN LET del == Delete(s, position, g) IN
         IF del.err # NoErr THEN del
         ELSE IF del.ret # vertex THEN Outcome(del.st, 0 - 1, ErrPushMismatch)
         ELSE IF del.st.P[vertex] # 0 - 1
         THEN Outcome(del.st, 0 - 1, ErrPushNotDeleted)
         ELSE Insert(del.st, vertex, distance)
    ELSE Insert(s, vertex, distance)

\* the swaps Push(vertex, distance) makes, in order
PushLog(s, vertex, distance, g) ==
  IF vertex < 0 \/ vertex >= CapacityOf(s) THEN << >>
  ELSE LET position == s.P[vertex] IN
    IF position >= 0
    THEN LET del == Delete(s, position, g) IN
         DeleteLog(s, position, g)
         \o (IF \/ del.err # NoErr \/ del.ret # vertex
                \/ del.st.P[vertex] # 0 - 1
             THEN << >> ELSE InsertLog(del.st, vertex, distance))
    ELSE InsertLog(s, vertex, distance)

\* the indexes at which Push(vertex, distance) reads or writes Queue
PushQueueIndexes(s, vertex, distance, g) ==
  IF vertex < 0 \/ vertex >= CapacityOf(s) THEN {}
  ELSE LET position == s.P[vertex] IN
    IF position >= 0
    THEN LET del == Delete(s, position, g) IN
         DeleteQueueIndexes(s, position)
         \cup (IF \/ del.err # NoErr \/ del.ret # vertex
                  \/ del.st.P[vertex] # 0 - 1
               THEN {} ELSE InsertQueueIndexes(del.st, vertex, distance))
    ELSE InsertQueueIndexes(s, vertex, distance)

\* the indexes at which PopMin() reads or writes Queue
PopMinQueueIndexes(s) == IF Empty(s) THEN {} ELSE DeleteQueueIndexes(s, 0)

\* the indexes at which Fill(distance) writes Queue and Positions
FillIndexes(s) == 0 .. (CapacityOf(s) - 1)

\* the shiftUp / shiftDown calls Push(vertex, distance) makes, in order
PushSifts(s, vertex, distance, g) ==
  IF vertex < 0 \/ vertex >= CapacityOf(s) THEN << >>
  ELSE LET position == s.P[vertex] IN
    IF position >= 0
    THEN LET del == Delete(s, position, g) IN
         DeleteSifts(s, position, g)
         \o (IF \/ del.err # NoErr \/ del.ret # vertex
                \/ del.st.P[vertex] # 0 - 1
             THEN << >> ELSE InsertSifts(del.st, vertex, distance))
    ELSE InsertSifts(s, vertex, distance)

\* the shiftUp / shiftDown calls PopMin() makes, in order
PopMinSifts(s, g) == IF Empty(s) THEN << >> ELSE DeleteSifts(s, 0, g)

\* PopMin without its test of Empty()
PopMinUnchecked(s, g) == Delete(s, 0, g)

PopMinOutcome(s, g) ==
  IF Empty(s) THEN Outcome(s, 0 - 1, ErrStackEmpty)
  ELSE Delete(s, 0, g)

\* the swaps PopMin() makes, in order
PopMinLog(s, g) == IF Empty(s) THEN << >> ELSE DeleteLog(s, 0, g)

\* Fill with a loop that stops one vertex short
FillShort(s, distance) ==
  Obj([v \in DOMAIN s.Q |->
         IF v < CapacityOf(s) - 1 THEN Elem(v, distance) ELSE s.Q[v]],
      [v \in DOMAIN s.P |-> IF v < CapacityOf(s) - 1 THEN v ELSE s.P[v]],
      CapacityOf(s))

FillObj(s, distance) ==
  Obj([v \in DOMAIN s.Q |-> Elem(v, distance)], [v \in DOMAIN s.P |-> v],
      CapacityOf(s))

Self == Obj(Queue, Positions, NumElements)

\* What the reads past the end of Queue can yield when Delete(position) is
\* called on s.  The values read only feed the comparisons of
\* inCorrectSpotwithRespectToChild and getSmallerChild; -1 and MaxDist drive
\* each of them both ways.
GarbageD == {0 - 1, MaxDist}
Garbage(s, position) ==
  IF DeleteReadsPastEnd(s, position)
  THEN [l : IF (position * 2) + 1 >= CapacityOf(s) THEN GarbageD ELSE {0 - 1},
        r : GarbageD]
  ELSE {NoGarbage}

PushGarbage(s, vertex) ==
  IF vertex \in DOMAIN s.P /\ s.P[vertex] >= 0
  THEN Garbage(s, s.P[vertex]) ELSE {NoGarbage}

\* "foreach vertex v = 0..N-1: push(v, distance)", the loop Fill's header
\* comment equates Fill with, run from vertex v on every outcome in outs.  A
\* Push that throws ends the loop; the reads past the end of Queue make the
\* result a set of outcomes.
RECURSIVE PushEach(_, _, _)
PushEach(outs, distance, v) ==
  IF \A o \in outs : v >= CapacityOf(o.st) THEN outs
  ELSE PushEach(UNION { IF o.err # NoErr THEN {o}
                        ELSE { PushOutcome(o.st, v, distance, g) :
                                 g \in PushGarbage(o.st, v) } : o \in outs },
                distance, v + 1)

\* the (vertex, distance) entries in the occupied slots of s
Entries(s) == { s.Q[i] : i \in 0 .. (s.n - 1) }

Store(s) ==
  /\ Queue' = s.Q
  /\ Positions' = s.P
  /\ NumElements' = s.n

\* ---- the public operations, as steps of the heap and of the last-call record
DoFill(distance) ==
  /\ Store(FillObj(Self, distance))
  /\ lastOp' = "Fill" /\ lastV' = NoVertex /\ lastD' = distance
  /\ lastRet' = 0 - 1 /\ lastErr' = NoErr

DoPush(vertex, distance, g) ==
  LET out == PushOutcome(Self, vertex, distance, g) IN
  /\ Store(out.st)
  /\ lastOp' = "Push" /\ lastV' = vertex /\ lastD' = distance
  /\ lastRet' = 0 - 1 /\ lastErr' = out.err

DoPopMin(g) ==
  LET out == PopMinOutcome(Self, g) IN
  /\ Store(out.st)
  /\ lastOp' = "PopMin" /\ lastV' = NoVertex /\ lastD' = NoDist
  /\ lastRet' = out.ret /\ lastErr' = out.err

InitHeap ==
  /\ Queue = Constructed.Q
  /\ Positions = Constructed.P
  /\ NumElements = Constructed.n
  /\ lastOp = "new" /\ lastV = NoVertex /\ lastD = NoDist
  /\ lastRet = 0 - 1 /\ lastErr = NoErr

Init ==
  /\ InitHeap
  /\ sinceFill = NotInFillRun
  /\ runPushed = {} /\ minPushed = 0 - 1
  /\ pushedD = [v \in Vertices |-> NoDist] /\ poppedV = << >>
  /\ kPush = 0 /\ mPop = 0
  /\ sifts = << >>

\* what the PopMin just made adds to the record of the calls since Fill:
\* the vertex returned, -1 for "stack empty!", -3 for any other exception
PopResult(ret, err) ==
  IF err = NoErr THEN ret ELSE IF err = ErrStackEmpty THEN 0 - 1 ELSE 0 - 3

\* the vertex a Push(vertex, distance) puts below every other distance in the
\* queue, -1 if it is not below all of them
BelowAllOthers(vertex, distance) ==
  IF /\ vertex \in Vertices
     /\ \A i \in 0 .. (NumElements - 1) :
          Queue[i].V # vertex => distance < Queue[i].D
  THEN vertex ELSE 0 - 1

\* ---- Spec: any sequence of calls of the public interface -----------------
Fill ==
  \E distance \in Dist :
    /\ DoFill(distance)
    /\ sinceFill' = << >>
    /\ minPushed' = 0 - 1
    /\ UNCHANGED <<runPushed, scen>>

Push ==
  \E vertex \in VertexArgs, distance \in Dist :
  \E g \in PushGarbage(Self, vertex) :
    /\ DoPush(vertex, distance, g)
    /\ sinceFill' = NotInFillRun
    /\ minPushed' = BelowAllOthers(vertex, distance)
    /\ UNCHANGED <<runPushed, scen>>

PopMin ==
  \E g \in Garbage(Self, 0) :
    /\ DoPopMin(g)
    /\ sinceFill' = IF sinceFill = NotInFillRun \/ Len(sinceFill) > Capacity
                    THEN sinceFill
                    ELSE Append(sinceFill, PopResult(lastRet', lastErr'))
    /\ minPushed' = 0 - 1
    /\ UNCHANGED <<runPushed, scen>>

Next == Fill \/ Push \/ PopMin

Spec == Init /\ [][Next]_vars

\* ---- SpecPushes: pushes only, on the queue as constructed, with the record
\* of the vertices this run of pushes has put into the queue
RunPush ==
  \E vertex \in VertexArgs, distance \in Dist :
  \E g \in PushGarbage(Self, vertex) :
    /\ DoPush(vertex, distance, g)
    /\ runPushed' = IF vertex \notin Vertices THEN runPushed
                    ELSE IF lastErr' = NoErr THEN runPushed \cup {vertex}
                    ELSE runPushed \ {vertex}
    /\ UNCHANGED <<sinceFill, minPushed, scen>>

SpecPushes == Init /\ [][RunPush]_vars

\* ---- SpecOrder: StressTest1 / StressTest2 - every vertex is pushed once, with
\* pairwise distinct distances, and then the queue is popped until it is empty
OrderPush ==
  \E vertex \in Vertices, distance \in OrderDist :
    /\ poppedV = << >>
    /\ pushedD[vertex] = NoDist
    /\ \A v \in Vertices : pushedD[v] # distance
    /\ DoPush(vertex, distance, NoGarbage)
    /\ pushedD' = [pushedD EXCEPT ![vertex] = distance]
    /\ kPush' = kPush + 1
    /\ UNCHANGED <<runs, poppedV, mPop, sifts>>

OrderPopMin ==
  \E g \in Garbage(Self, 0) :
    /\ \A v \in Vertices : pushedD[v] # NoDist
    /\ Len(poppedV) < Capacity
    /\ DoPopMin(g)
    /\ poppedV' = Append(poppedV, lastRet')
    /\ mPop' = mPop + 1
    /\ UNCHANGED <<runs, pushedD, kPush, sifts>>

OrderNext == OrderPush \/ OrderPopMin

SpecOrder == Init /\ [][OrderNext]_vars

\* ---- SpecCount: pushes of pairwise distinct vertices and pops of a queue
\* that is not empty, counted
CountPush ==
  \E vertex \in Vertices, distance \in Dist :
  \E g \in PushGarbage(Self, vertex) :
    /\ pushedD[vertex] = NoDist
    /\ DoPush(vertex, distance, g)
    /\ pushedD' = [pushedD EXCEPT ![vertex] = distance]
    /\ kPush' = IF lastErr' = NoErr THEN kPush + 1 ELSE kPush
    /\ UNCHANGED <<runs, poppedV, mPop, sifts>>

CountPopMin ==
  \E g \in Garbage(Self, 0) :
    /\ ~ Empty(Self)
    /\ DoPopMin(g)
    /\ mPop' = IF lastErr' = NoErr THEN mPop + 1 ELSE mPop
    /\ UNCHANGED <<runs, pushedD, poppedV, kPush, sifts>>

CountNext == CountPush \/ CountPopMin

SpecCount == Init /\ [][CountNext]_vars

\* ---- SpecRelocate: pushes and pops on a queue constructed with one vertex
\* more, PQueue(Capacity + 1), so that slot 1 can have its left child in the
\* occupied range after Delete has taken the last entry; the distances are the
\* sentinel -1 of the cleared slots and the distances below it
SentinelDist == MinDist .. (0 - 1)

InitRelocate ==
  /\ Queue = PQueue(Capacity + 1).Q
  /\ Positions = PQueue(Capacity + 1).P
  /\ NumElements = PQueue(Capacity + 1).n
  /\ lastOp = "new" /\ lastV = NoVertex /\ lastD = NoDist
  /\ lastRet = 0 - 1 /\ lastErr = NoErr
  /\ sinceFill = NotInFillRun
  /\ runPushed = {} /\ minPushed = 0 - 1
  /\ pushedD = [v \in Vertices |-> NoDist] /\ poppedV = << >>
  /\ kPush = 0 /\ mPop = 0
  /\ sifts = << >>

RelocatePush ==
  \E vertex \in DOMAIN Positions, distance \in SentinelDist :
  \E g \in PushGarbage(Self, vertex) :
    /\ DoPush(vertex, distance, g)
    /\ UNCHANGED <<runs, scen>>

RelocatePopMin ==
  \E g \in Garbage(Self, 0) :
    /\ DoPopMin(g)
    /\ UNCHANGED <<runs, scen>>

RelocateNext == RelocatePush \/ RelocatePopMin

SpecRelocate == InitRelocate /\ [][RelocateNext]_vars

\* ---- SpecSift: any sequence of calls of the public interface, with the
\* record of the shiftUp / shiftDown calls the last call made
SiftFill ==
  \E distance \in Dist :
    /\ Store(FillObj(Self, distance))
    /\ sifts' = << >>
    /\ UNCHANGED <<last, runs, pushedD, poppedV, kPush, mPop>>

SiftPush ==
  \E vertex \in VertexArgs, distance \in Dist :
  \E g \in PushGarbage(Self, vertex) :
    /\ Store(PushOutcome(Self, vertex, distance, g).st)
    /\ sifts' = PushSifts(Self, vertex, distance, g)
    /\ UNCHANGED <<last, runs, pushedD, poppedV, kPush, mPop>>

SiftPopMin ==
  \E g \in Garbage(Self, 0) :
    /\ Store(PopMinOutcome(Self, g).st)
    /\ sifts' = PopMinSifts(Self, g)
    /\ UNCHANGED <<last, runs, pushedD, poppedV, kPush, mPop>>

SiftNext == SiftFill \/ SiftPush \/ SiftPopMin

SpecSift == Init /\ [][SiftNext]_vars

\* ---- the call a step makes, read back from the last-call record -----------
\* what the reads past the end of Queue can yield in the call of this step
CallGarbage ==
  IF lastOp' = "Push" THEN PushGarbage(Self, lastV')
  ELSE IF lastOp' = "PopMin" THEN Garbage(Self, 0)
  ELSE {NoGarbage}

\* the swaps the call of this step makes, in order
CallLog(g) ==
  IF lastOp' = "Push" THEN PushLog(Self, lastV', lastD', g)
  ELSE IF lastOp' = "PopMin" THEN PopMinLog(Self, g)
  ELSE << >>

\* the indexes at which the call of this step reads or writes Queue
CallQueueIndexes(g) ==
  IF lastOp' = "Push" THEN PushQueueIndexes(Self, lastV', lastD', g)
  ELSE IF lastOp' = "PopMin" THEN PopMinQueueIndexes(Self)
  ELSE IF lastOp' = "Fill" THEN FillIndexes(Self)
  ELSE {}

\* the slot the call of this step passes to Delete, -1 if it does not call it
CallDeletePosition ==
  IF lastOp' = "PopMin" /\ ~ Empty(Self) THEN 0
  ELSE IF lastOp' = "Push" /\ lastV' \in DOMAIN Positions
  THEN Positions[lastV']
  ELSE 0 - 1

\* ---- the claims ----------------------------------------------------------
Occupied == 0 .. (NumElements - 1)

\* C1: heap order (I1) - after any sequence of Fill, Push and PopMin calls every
\* occupied non-root slot holds a distance >= the distance in its parent slot.
HeapOrder ==
  \A i \in 1 .. (NumElements - 1) : Queue[i].D >= Queue[(i - 1) \div 2].D

\* C2: a PopMin that succeeds returns a vertex whose distance, at the time of
\* the call, is <= the distance of every vertex then in the queue.
PopMinReturnsMinimum ==
  [][ (lastOp' = "PopMin" /\ lastErr' = NoErr) =>
        \E j \in Occupied :
          /\ Queue[j].V = lastRet'
          /\ \A i \in Occupied : Queue[j].D <= Queue[i].D ]_vars

\* C4: bijection (I2) - a vertex with a position i >= 0 is stored in the
\* occupied slot i, and every occupied slot is the position of its vertex.
Bijection ==
  /\ \A v \in Vertices :
       Positions[v] >= 0 =>
         Positions[v] < NumElements /\ Queue[Positions[v]].V = v
  /\ \A i \in Occupied :
       Queue[i].V \in Vertices /\ Positions[Queue[i].V] = i

\* C8: PopMin on an empty queue throws "stack empty!" and leaves Queue,
\* Positions and NumElements as they were; PopMin on a non-empty queue never
\* throws "stack empty!".
PopMinEmptyError ==
  [][ lastOp' = "PopMin" =>
        IF NumElements = 0
        THEN lastErr' = ErrStackEmpty /\ UNCHANGED heap
        ELSE lastErr' # ErrStackEmpty ]_vars

PopMinEmptyErrorSeen ==
  /\ lastOp = "PopMin" /\ lastErr = ErrStackEmpty /\ NumElements = 0

\* C9: Push of a vertex < 0 or >= N throws the out-of-range error and leaves
\* Queue, Positions and NumElements as they were.
PushOutOfRangeError ==
  [][ (lastOp' = "Push" /\ (lastV' < 0 \/ lastV' >= Capacity)) =>
        lastErr' = ErrPushVertex /\ UNCHANGED heap ]_vars

PushOutOfRangeErrorSeen ==
  /\ lastOp = "Push" /\ lastV = Capacity /\ lastErr = ErrPushVertex
  /\ NumElements = 2

\* C10: Fill(D) leaves NumElements = N and every vertex exactly once in the
\* queue, at distance D, so that Empty() is false; the N calls of PopMin that
\* follow return every vertex exactly once and the call after them throws
\* "stack empty!".
FilledWith(distance) ==
  /\ NumElements = Capacity
  /\ ~ Empty(Self)
  /\ \A v \in Vertices :
       Cardinality({i \in Occupied : Queue[i].V = v}) = 1
  /\ \A i \in Occupied : Queue[i].D = distance

FillThenPopAll ==
  /\ lastOp = "Fill" => FilledWith(lastD)
  /\ sinceFill # NotInFillRun =>
       /\ \A i \in 1 .. Len(sinceFill) :
            IF i <= Capacity THEN sinceFill[i] \in Vertices
            ELSE sinceFill[i] = 0 - 1
       /\ \A i, j \in 1 .. Len(sinceFill) :
            i # j /\ i <= Capacity /\ j <= Capacity =>
              sinceFill[i] # sinceFill[j]

FillThenPopAllSeen ==
  /\ sinceFill # NotInFillRun
  /\ Len(sinceFill) = Capacity + 1
  /\ lastErr = ErrStackEmpty

\* C3: min-extraction order - once every vertex has been pushed once, with
\* pairwise distinct distances, the PopMin calls return the vertices in
\* strictly ascending order of their distances.
ExtractionOrder ==
  \A i, j \in 1 .. Len(poppedV) :
    i < j => pushedD[poppedV[i]] < pushedD[poppedV[j]]

\* C5: Push replaces - a Push(v, d2) that follows a Push(v, d1), with only
\* pushes of other vertices in between, leaves exactly one entry for v in the
\* occupied slots, and its distance is d2.
PushReplaces ==
  [][ (lastOp' = "Push" /\ lastV' \in runPushed) =>
        /\ lastErr' = NoErr
        /\ Cardinality({i \in 0 .. (NumElements' - 1) :
                          Queue'[i].V = lastV'}) = 1
        /\ \A i \in 0 .. (NumElements' - 1) :
             Queue'[i].V = lastV' => Queue'[i].D = lastD' ]_vars

\* C6: decrease-key to the minimum - after a Push(v, d) with d strictly below
\* the distance of every other vertex in the queue, the next PopMin returns v.
DecreaseKeyToMinimum ==
  [][ (lastOp' = "PopMin" /\ minPushed # 0 - 1) =>
        lastRet' = minPushed ]_vars

\* C7: count conservation - after k successful pushes of pairwise distinct
\* vertices and m successful pops, none of them tried on an empty queue,
\* Empty() is true if and only if k = m.
CountConservation == Empty(Self) <=> (kPush = mPop)

\* C11: Fill(D) is equivalent to Push(v, D) for v = 0..N-1 in order - from the
\* same reachable state both leave the same count and the same set of entries,
\* and from an empty queue they leave identical Queue and Positions arrays.
FillEquivalentToPushes ==
  \A distance \in Dist :
    \A o \in PushEach({Outcome(Self, 0 - 1, NoErr)}, distance, 0) :
      /\ o.err = NoErr
      /\ o.st.n = FillObj(Self, distance).n
      /\ Entries(o.st) = Entries(FillObj(Self, distance))
      /\ Empty(Self) => o.st = FillObj(Self, distance)

\* C12: sift-down keeps the two arrays in lockstep - right after shiftDown has
\* swapped the entries of slot i and of its child m, the position of the vertex
\* now in slot i is i, the position of the vertex now in slot m is m, and the
\* position of every other vertex is as before the swap.
Lockstep(e) ==
  /\ e.after.P[e.after.Q[e.i].V] = e.i
  /\ e.after.P[e.after.Q[e.m].V] = e.m
  /\ \A v \in DOMAIN e.after.P :
       v \notin {e.after.Q[e.i].V, e.after.Q[e.m].V} =>
         e.after.P[v] = e.before.P[v]

ShiftDownLockstep ==
  [][ \A g \in CallGarbage :
        \A k \in 1 .. Len(CallLog(g)) :
          CallLog(g)[k].kind = "down" => Lockstep(CallLog(g)[k]) ]_vars

\* C13: smaller-child selection - when the slot Delete relocates an entry to
\* has both children in the occupied range, the child the placement check and
\* shiftDown compare it against has a distance <= the other child's, and the
\* entry is swapped downward exactly when its distance is greater than that
\* child's.
SmallerChildSelection ==
  [][ \A g \in CallGarbage :
        LET position == CallDeletePosition IN
        (/\ DeleteRelocates(Self, position)
         /\ getRightChildIndex(position) < ChildCheckState(Self, position).n) =>
          LET sc    == ChildCheckState(Self, position)
              m     == getSmallerChild(sc, position, NoGarbage)
              other == IF m = getLeftChildIndex(position)
                       THEN getRightChildIndex(position)
                       ELSE getLeftChildIndex(position)
              down  == \E k \in 1 .. Len(DeleteLog(Self, position, g)) :
                         /\ DeleteLog(Self, position, g)[k].kind = "down"
                         /\ DeleteLog(Self, position, g)[k].i = position
          IN /\ sc.Q[m].D <= sc.Q[other].D
             /\ down <=> (sc.Q[position].D > sc.Q[m].D) ]_vars

\* C14: no internal-consistency error is reachable through the public
\* interface - whatever the sequence of Fill, Push and PopMin calls, the only
\* exceptions thrown are the out-of-range error of Push and "stack empty!".
NoInternalError == lastErr \in {NoErr, ErrPushVertex, ErrStackEmpty}

\* C15: uniqueness (I3) - after any sequence of Fill, Push and PopMin calls no
\* vertex occurs in more than one occupied slot of Queue.
Uniqueness ==
  \A i, j \in Occupied : i # j => Queue[i].V # Queue[j].V

UniquenessSeen ==
  /\ lastOp = "Push" /\ lastErr = NoErr
  /\ NumElements = Capacity
  /\ Cardinality({ Queue[i].V : i \in Occupied }) = Capacity
  /\ \E i \in Occupied : Queue[i].D # lastD

\* C16: density and capacity (I4) - after any sequence of Fill, Push and PopMin
\* calls 0 <= NumElements <= N, every slot below NumElements holds an entry
\* whose vertex is in 0..N-1, every slot from NumElements on holds the cleared
\* entry (V = -1, D = -1), and Insert has never been made to write at slot N.
Density ==
  /\ 0 <= NumElements /\ NumElements <= Capacity
  /\ \A i \in Slots :
       IF i < NumElements THEN Queue[i].V \in Vertices
       ELSE Queue[i] = Cleared
  /\ lastErr # ErrInsertOverflow

DensitySeen ==
  /\ lastOp = "PopMin" /\ lastErr = NoErr
  /\ NumElements = 2
  /\ Queue[2] = Cleared /\ Queue[3] = Cleared
  /\ Queue[0].V \in Vertices /\ Queue[1].V \in Vertices

\* C17: Delete(position) with position not the last occupied slot moves the
\* relocated entry in at most one direction - within one call it never happens
\* that shiftUp makes a swap and shiftDown makes a swap too; and when the
\* relocated entry is already correctly placed neither makes a swap.
CorrectlyPlaced(s, position) ==
  /\ position # 0 => s.Q[position].D >= s.Q[(position - 1) \div 2].D
  /\ \A c \in {(position * 2) + 1, (position * 2) + 2} :
       c < s.n => s.Q[position].D <= s.Q[c].D

OneDirection ==
  [][ \A g \in CallGarbage :
        LET position == CallDeletePosition
            log      == DeleteLog(Self, position, g)
        IN DeleteRelocates(Self, position) =>
             /\ ~ (/\ \E k \in 1 .. Len(log) : log[k].kind = "up"
                   /\ \E k \in 1 .. Len(log) : log[k].kind = "down")
             /\ CorrectlyPlaced(Relocated(Self, position), position) =>
                  log = << >> ]_vars

\* C18: insertion preserves heap order - if heap order (I1) and the bijection
\* (I2) hold before Push(v, d) with v absent and NumElements < N, the call
\* succeeds, the new entry has been swapped upward only while its distance was
\* strictly less than its parent's, and I1 holds over all NumElements + 1
\* occupied slots afterwards.
InsertPreservesHeapOrder ==
  [][ (/\ lastOp' = "Push" /\ lastV' \in Vertices
       /\ Positions[lastV'] = 0 - 1 /\ NumElements < Capacity
       /\ HeapOrder /\ Bijection) =>
        LET log == InsertLog(Self, lastV', lastD') IN
        /\ lastErr' = NoErr
        /\ NumElements' = NumElements + 1
        /\ \A k \in 1 .. Len(log) :
             /\ log[k].kind = "up"
             /\ log[k].m = (log[k].i - 1) \div 2
             /\ log[k].before.Q[log[k].i] = Elem(lastV', lastD')
             /\ lastD' < log[k].before.Q[log[k].m].D
        /\ HeapOrder' ]_vars

InsertPreservesHeapOrderSeen ==
  /\ lastOp = "Push" /\ lastErr = NoErr
  /\ NumElements = Capacity
  /\ Queue[0] = Elem(lastV, lastD)
  /\ \A i \in 1 .. (NumElements - 1) : lastD < Queue[i].D
  /\ Queue[1].D < Queue[3].D
  /\ HeapOrder /\ Bijection

\* C19: every Push and PopMin terminates in every reachable state - shiftUp
\* stops at the root or at the first ancestor whose distance is not greater,
\* shiftDown stops when the slot has no child in range or is not greater than
\* the child chosen, and neither makes more swaps than the height of the heap.
SiftsStop ==
  \A k \in 1 .. Len(sifts) :
    /\ sifts[k].swaps <= sifts[k].height
    /\ sifts[k].stopped

SiftsStopSeen ==
  /\ \E k \in 1 .. Len(sifts) :
       /\ sifts[k].kind = "down" /\ sifts[k].stopped
  /\ \E k \in 1 .. Len(sifts) :
       /\ sifts[k].kind = "up" /\ sifts[k].stopped
       /\ sifts[k].swaps = 2 /\ sifts[k].height = 2

\* C20: array bounds - during any Fill, Push or PopMin call in any reachable
\* state of a queue of capacity N, every read or write of Queue uses an index
\* in 0..N-1, the reads of the child slots 2*i+1 and 2*i+2 that Delete makes
\* while it checks the relocated entry included.
ArrayBounds ==
  [][ \A g \in CallGarbage :
        \A idx \in CallQueueIndexes(g) :
          0 <= idx /\ idx < CapacityOf(Self) ]_vars

\* ---- C21 ------------------------------------------------------------------
\* the entries of s that belong to vertex v
EntriesOf(s, v) == { e \in Entries(s) : e.V = v }

\* a successful Push(lastV', lastD') changes the set of stored pairs only by
\* removing the pair of lastV' and adding (lastV', lastD')
PushConservesContent ==
  (lastOp' = "Push" /\ lastErr' = NoErr) =>
    Entries(Self)' =
      (Entries(Self) \ EntriesOf(Self, lastV')) \cup {Elem(lastV', lastD')}

\* a successful PopMin changes the set of stored pairs only by removing the
\* pair of the vertex it returned
PopMinConservesContent ==
  (lastOp' = "PopMin" /\ lastErr' = NoErr) =>
    /\ EntriesOf(Self, lastRet') # {}
    /\ Entries(Self)' = Entries(Self) \ EntriesOf(Self, lastRet')

\* the vertex a successful PopMin returned is marked absent
PopMinMarksAbsent ==
  (lastOp' = "PopMin" /\ lastErr' = NoErr) => Positions'[lastRet'] = 0 - 1

\* C21: content conservation.  In any reachable state a successful
\* Push(v, d) changes the set of stored (vertex, distance) pairs only by
\* removing v's previous pair and adding (v, d); a successful PopMin changes
\* it only by removing the pair of the returned vertex, and that vertex is
\* then marked absent in Positions.
ContentConservation ==
  [][ /\ PushConservesContent
      /\ PopMinConservesContent
      /\ PopMinMarksAbsent ]_vars


====
